---- MODULE Spec2Model ----
(***************************************************************************)
(* Model of package httpx (src/httpx.go): the Response builder, the        *)
(* ErrorJSONCode factory and the resolver fireAfterMiddleware behind the   *)
(* wrappers H and HRouter.  One behaviour is one request: the user handler *)
(* runs builder calls and sets headers on the http.ResponseWriter, then    *)
(* returns an error value that the wrapper resolves.                       *)
(***************************************************************************)
EXTENDS Integers, Sequences, FiniteSets, TLC

VARIABLES
    pc,                 \* "handler" (user handler running) | "done" | "panic"
    panicked,           \* "" or the function whose nil dereference aborted the request
    nops,               \* number of statements the handler has executed
    heap,               \* Go heap of map[string]string objects; a reference is an index, 0 is the nil map
    res,                \* the *Response the handler is building
    ops,                \* the builder calls made on res since it was created
    e,                  \* the shared *ErrorJSONCode
    src,                \* the io.Reader / io.ReadCloser the handler streams from
    runs,               \* every invocation of a Copy closure
    w,                  \* the http.ResponseWriter: its http.Header and the calls the resolver made on it
    wAtReturn,          \* the http.Header as the handler left it
    outcome,            \* the error value the handler returned
    resolved,           \* res as fireAfterMiddleware resolved it
    classifierCalls,    \* arguments DefaultErrorHandler was invoked with
    copyErrCalls,       \* arguments CopyErrorHandler was invoked with
    afterCalls,         \* Responses DefaultAfterMiddleware was invoked with
    errOut,             \* return values of Response.Error()
    extraArg,           \* the arguments of the last ErrorJSONCode.JSON call
    cfg                 \* the process-wide hook configuration

vars == <<pc, panicked, nops, heap, res, ops, e, src, runs, w, wAtReturn,
          outcome, resolved, classifierCalls, copyErrCalls, afterCalls, errOut,
          extraArg, cfg>>

-----------------------------------------------------------------------------
(* Bounds *)

MaxOps == 3             \* statements the handler executes before it returns

-----------------------------------------------------------------------------
(* Program constants and input domains *)

StatusOK == 200
StatusBadRequest == 400
StatusNotFound == 404
StatusUnauthorized == 401
StatusInternalServerError == 500

Statuses == {StatusOK, StatusUnauthorized}

EmptyMap == [k \in {} |-> ""]

\* map[string]string literals a handler passes to Headers
InputMaps == { [A |-> "1"],
               [A |-> "2", B |-> "3"],
               [a |-> "9"] }

\* values a handler passes to Response.JSON
UnsupportedValue == [unsupported |-> "chan"]
JSONValues == { [hello |-> "\"world\""], UnsupportedValue }

Texts == {"Unauthorized"}

\* the variadic `extra ...any` of ErrorJSONCode.JSON: each element is the nil
\* interface, or a non-nil interface whose JSON encoding is the string given
NilAny == "<nil>"
ExtraArgs == { <<>>, <<NilAny>>, <<"\"\"">>, <<"\"details\"">>, <<"null">>,
               <<NilAny, "\"details\"">> }

ErrMsgs == {"boom"}

-----------------------------------------------------------------------------
(* Values *)

NilCopy == [kind |-> "nil", val |-> EmptyMap]

NilResponse == [alloc |-> FALSE, Code |-> 0, headers |-> 0, Copy |-> NilCopy]

NilCode == [alloc |-> FALSE, Code |-> "", Status |-> 0, Extra |-> NilAny]

\* the header set a reference denotes; ranging over the nil map yields nothing
Deref(h, ref) == IF ref = 0 THEN EmptyMap ELSE h[ref].m

\* a fresh map object; lit marks a map literal the handler wrote and still holds
Alloc(h, m, lit) == Append(h, [m |-> m, lit |-> lit])

MapSet(m, k, v) == [x \in (DOMAIN m) \cup {k} |-> IF x = k THEN v ELSE m[x]]

\* for k, v := range m { dst[k] = v }, over the keys ks still to visit
RECURSIVE RangeAssign(_, _, _)
RangeAssign(dst, m, ks) ==
    IF ks = {} THEN dst
    ELSE LET k == CHOOSE x \in ks : TRUE
         IN  RangeAssign(MapSet(dst, k, m[k]), m, ks \ {k})

-----------------------------------------------------------------------------
(* The Response builder.  Each operator takes the heap h and the receiver  *)
(* r and returns the heap, the Response and the name of the function that  *)
(* panicked, if one did.                                                   *)

Ret(h, r, p) == [heap |-> h, r |-> r, panic |-> p]

Code(h, code) ==
    Ret(Alloc(h, EmptyMap, FALSE),
        [alloc |-> TRUE, Code |-> code, headers |-> Len(h) + 1, Copy |-> NilCopy],
        "")

NoContent(h) == Code(h, StatusOK)

\* &Response{Code: code, Copy: c}: headers is unexported, so a literal leaves it nil
ResponseLiteral(h, code) ==
    Ret(h, [alloc |-> TRUE, Code |-> code, headers |-> 0, Copy |-> NilCopy], "")

JSON(h, r, value) ==
    IF r.headers = 0
    THEN Ret(h, r, "JSON")     \* assignment to entry in nil map
    ELSE Ret([h EXCEPT ![r.headers].m = MapSet(@, "Content-Type", "application/json")],
             [r EXCEPT !.Copy = [kind |-> "json", val |-> value]],
             "")

Text(h, r, s) ==
    Ret(h, [r EXCEPT !.Copy = [kind |-> "text", val |-> [text |-> s]]], "")

\* Headers without the merge: the argument replaces the header set
HeadersReplace(h, r, m) ==
    Ret(h, [r EXCEPT !.headers = m], "")

\* m is a reference to the argument map, 0 for a nil map
Headers(h, r, m) ==
    IF r.headers # 0
    THEN Ret([h EXCEPT ![r.headers].m =
                  RangeAssign(@, Deref(h, m), DOMAIN Deref(h, m))],
             r, "")
    ELSE Ret(h, [r EXCEPT !.headers = m], "")

Reader(h, r) ==
    Ret(h, [r EXCEPT !.Copy = [kind |-> "reader", val |-> [src |-> "fd"]]], "")

ReadCloser(h, r) ==
    Ret(h, [r EXCEPT !.Copy = [kind |-> "readcloser", val |-> [src |-> "fd"]]], "")

-----------------------------------------------------------------------------
(* ErrorJSONCode *)

NewCode(code, status) ==
    [alloc |-> TRUE, Code |-> code, Status |-> status, Extra |-> NilAny]

Quote(str) == "\"" \o str \o "\""

\* the "extra" key written without the nil check
CodeJSONValueAlways(ec, value) ==
    [code |-> Quote(ec.Code), extra |-> IF value = NilAny THEN "null" ELSE value]

\* the map[string]any built by ErrorJSONCode.JSON; the "extra" key is added
\* only for a non-nil interface value
CodeJSONValue(ec, value) ==
    IF value # NilAny
    THEN [code |-> Quote(ec.Code), extra |-> value]
    ELSE [code |-> Quote(ec.Code)]

\* returns the new Response together with the receiver as the call leaves it
ErrorJSONCodeJSON(h, ec, extra) ==
    LET value == IF Len(extra) > 0 THEN extra[1] ELSE NilAny
        st    == Code(h, ec.Status)
        out   == JSON(st.heap, st.r, CodeJSONValue(ec, value))
    IN  [heap |-> out.heap, r |-> out.r, panic |-> out.panic, e |-> ec]

-----------------------------------------------------------------------------
(* The Copy closures *)

\* encoding/json writes the keys of a map in sorted order
KeyOrder == <<"code", "extra", "hello">>

RECURSIVE EncodeFields(_, _)
EncodeFields(value, keys) ==
    IF keys = <<>> THEN ""
    ELSE Quote(Head(keys)) \o ":" \o value[Head(keys)]
         \o (IF Len(keys) > 1 THEN "," ELSE "")
         \o EncodeFields(value, Tail(keys))

\* json.NewEncoder(w).Encode(value): the object followed by a newline
Encode(value) ==
    "{" \o EncodeFields(value, SelectSeq(KeyOrder, LAMBDA k : k \in DOMAIN value))
        \o "}\n"

SrcData == "hello world"

\* io.Copy(w, reader) on the source s: [err, out, src]
IoCopy(s, n, sinkFail, srcFail) ==
    LET s1 == [s EXCEPT !.events = Append(@, [ev |-> "copy", run |-> n])]
    IN  IF s.closed > 0 \/ srcFail
        THEN [err |-> "read failed", out |-> "", src |-> s1]
        ELSE IF sinkFail
        THEN [err |-> "write failed", out |-> "", src |-> [s1 EXCEPT !.eof = TRUE]]
        ELSE [err |-> "", out |-> IF s.eof THEN "" ELSE SrcData,
              src |-> [s1 EXCEPT !.eof = TRUE]]

\* reader.Close()
Close(s, n) ==
    [s EXCEPT !.closed = @ + 1, !.events = Append(@, [ev |-> "close", run |-> n])]

\* Close without defer: skipped when the copy returns an error
ReadCloserCopyNoDefer(s, n, sinkFail, srcFail) ==
    LET c == IoCopy(s, n, sinkFail, srcFail)
    IN  IF c.err # "" THEN c ELSE [c EXCEPT !.src = Close(c.src, n)]

\* defer reader.Close(); _, err := io.Copy(w, reader); return err
ReadCloserCopy(s, n, sinkFail, srcFail) ==
    LET c == IoCopy(s, n, sinkFail, srcFail)
    IN  [c EXCEPT !.src = Close(c.src, n)]

\* r.Copy(sink) as invocation number n: the error text ("" for nil), the bytes
\* that reached the sink and the source afterwards
CopyRun(c, s, n, sinkFail, srcFail) ==
    CASE c.kind = "json" ->
            IF c.val = UnsupportedValue
            THEN [err |-> "json: unsupported type", out |-> "", src |-> s]
            ELSE IF sinkFail
            THEN [err |-> "write failed", out |-> "", src |-> s]
            ELSE [err |-> "", out |-> Encode(c.val), src |-> s]
      [] c.kind = "text" ->
            IF sinkFail
            THEN [err |-> "write failed", out |-> "", src |-> s]
            ELSE [err |-> "", out |-> c.val.text, src |-> s]
      [] c.kind = "reader" -> IoCopy(s, n, sinkFail, srcFail)
      [] c.kind = "readcloser" -> ReadCloserCopy(s, n, sinkFail, srcFail)

\* Response.Error(): copies into a bytes.Buffer, whose writes never fail
Error(r, s, n, srcFail) ==
    IF r.Copy.kind = "nil"
    THEN [panic |-> "Error", str |-> "", src |-> s, ran |-> FALSE, err |-> ""]
    ELSE LET c == CopyRun(r.Copy, s, n, FALSE, srcFail)
         IN  [panic |-> "",
              str   |-> IF c.err # ""
                        THEN "reading all bytes from Reader: " \o c.err
                        ELSE c.out,
              src   |-> c.src, ran |-> TRUE, err |-> c.err]

-----------------------------------------------------------------------------
(* The process-wide hooks *)

\* a classifier that answers 500 whatever the configuration
DefaultErrorHandlerWrongStatus(h, which, msg) ==
    LET st == Code(h, StatusInternalServerError)
    IN  Text(st.heap, st.r, msg)

\* the classifier: the package default, or the one the README installs
DefaultErrorHandler(h, which, msg) ==
    LET st == Code(h, IF which = "default" THEN StatusBadRequest
                                            ELSE StatusInternalServerError)
    IN  Text(st.heap, st.r, msg)

-----------------------------------------------------------------------------
(* The http.ResponseWriter *)

\* textproto.CanonicalMIMEHeaderKey on the keys in use: http.Header.Set and
\* http.Header.Get store and look up a header under its canonical key
CanonicalMIMEHeaderKey(k) ==
    CASE k = "a" -> "A"
      [] k = "content-type" -> "Content-Type"
      [] OTHER -> k

\* w.Header().Set(key, value)
HeaderSet(hdr, key, value) == MapSet(hdr, CanonicalMIMEHeaderKey(key), value)

\* w.Header().Get(key), "" when the header is absent
HeaderGet(hdr, key) ==
    IF CanonicalMIMEHeaderKey(key) \in DOMAIN hdr
    THEN hdr[CanonicalMIMEHeaderKey(key)] ELSE ""

Call(op, k, v, n) == [op |-> op, k |-> k, v |-> v, n |-> n]

\* the orders in which `range` may visit the keys of a map
Orders(S) ==
    { o \in [1..Cardinality(S) -> S] :
        \A i, j \in 1..Cardinality(S) : o[i] = o[j] => i = j }

\* for key, value := range res.headers { w.Header().Set(key, value) }
RECURSIVE SetHeaders(_, _, _)
SetHeaders(sink, hdrs, order) ==
    IF order = <<>> THEN sink
    ELSE LET k == Head(order)
         IN  SetHeaders([header |-> HeaderSet(sink.header, k, hdrs[k]),
                         calls  |-> Append(sink.calls, Call("Set", k, hdrs[k], 0))],
                        hdrs, Tail(order))

\* WriteHeader issued a second time
WriteHeaderTwice(sink, code) ==
    [sink EXCEPT !.calls = Append(Append(@, Call("WriteHeader", "", "", code)),
                                  Call("WriteHeader", "", "", code))]

\* w.WriteHeader(code)
WriteHeader(sink, code) ==
    [sink EXCEPT !.calls = Append(@, Call("WriteHeader", "", "", code))]

\* the Response as a value: what a hook that receives the pointer can read
ResValue(h, r) == [Code |-> r.Code, headers |-> Deref(h, r.headers), Copy |-> r.Copy]

NilResValue == ResValue(<<>>, NilResponse)

-----------------------------------------------------------------------------
(* The resolver *)

\* the nil check left out
IsNilMissing(err) == FALSE

\* err == nil
IsNil(err) == err.type = "nil"

\* the observer called without looking at err
ReportCopyErrorAlways(calls, err) == Append(calls, err)

\* if err != nil { CopyErrorHandler(err) }
ReportCopyError(calls, err) == IF err # "" THEN Append(calls, err) ELSE calls

\* fireAfterMiddleware(err, w, r).  sinkFail and srcFail say whether the client
\* connection and the body source fail during the copy; the order in which
\* `range` visits res.headers is the runtime's choice.
fireAfterMiddleware(err, sinkFail, srcFail) ==
    /\ outcome' = err
    /\ wAtReturn' = w.header
    /\ pc' = "done"
    /\ UNCHANGED <<panicked, nops, res, ops, e, errOut, extraArg, cfg>>
    /\ IF IsNil(err)
       THEN UNCHANGED <<heap, src, runs, w, resolved, classifierCalls,
                        copyErrCalls, afterCalls>>
       ELSE LET ok   == err.type = "Response"
                st   == IF ok THEN Ret(heap, res, "")
                        ELSE DefaultErrorHandler(heap, cfg.classifier, err.msg)
                r    == st.r
                hdrs == Deref(st.heap, r.headers)
                n    == Len(runs) + 1
            IN  \E order \in Orders(DOMAIN hdrs) :
                LET w1 == SetHeaders(w, hdrs, order)
                    w2 == WriteHeader(w1, r.Code)
                IN
                /\ heap' = st.heap
                /\ resolved' = ResValue(st.heap, r)
                /\ classifierCalls' = IF ok THEN classifierCalls
                                      ELSE Append(classifierCalls, err.msg)
                /\ IF r.Copy.kind = "nil"
                   THEN /\ w' = w2
                        /\ UNCHANGED <<src, runs, copyErrCalls, afterCalls>>
                   ELSE LET c == CopyRun(r.Copy, src, n, sinkFail, srcFail)
                        IN  /\ w' = [w2 EXCEPT !.calls =
                                        Append(@, Call("Copy", r.Copy.kind, c.out, n))]
                            /\ src' = c.src
                            /\ runs' = Append(runs, [by |-> "resolver",
                                                     kind |-> r.Copy.kind,
                                                     err |-> c.err])
                            /\ copyErrCalls' = ReportCopyError(copyErrCalls, c.err)
                            /\ afterCalls' = Append(afterCalls, ResValue(st.heap, r))

\* the values a handler can return
Outcomes ==
    {[type |-> "nil", msg |-> ""]}
      \cup (IF res.alloc THEN {[type |-> "Response", msg |-> ""]} ELSE {})
      \cup {[type |-> "error", msg |-> m] : m \in ErrMsgs}

\* H(h)(w, r): the handler returns err and the wrapper resolves it
H ==
    /\ pc = "handler"
    /\ \E err \in Outcomes, sinkFail, srcFail \in BOOLEAN :
           fireAfterMiddleware(err, sinkFail, srcFail)

\* HRouter(h)(w, r, p): the same with the route parameters passed through
HRouter ==
    /\ pc = "handler"
    /\ \E err \in Outcomes, sinkFail, srcFail \in BOOLEAN :
           fireAfterMiddleware(err, sinkFail, srcFail)

-----------------------------------------------------------------------------
(* Statements of the user handler *)

Running == pc = "handler" /\ nops < MaxOps

\* the handler's statement left the builder state st
Step(st, log) ==
    /\ nops' = nops + 1
    /\ heap' = st.heap
    /\ res' = st.r
    /\ IF st.panic # ""
       THEN pc' = "panic" /\ panicked' = st.panic /\ ops' = ops
       ELSE ops' = log /\ UNCHANGED <<pc, panicked>>
    /\ UNCHANGED <<src, runs, w, wAtReturn, outcome, resolved, classifierCalls,
                   copyErrCalls, afterCalls, errOut, cfg>>

Op(name, arg) == [op |-> name, arg |-> arg]

DoCode(code) ==
    /\ Running
    /\ Step(Code(heap, code), <<>>) /\ UNCHANGED <<e, extraArg>>

DoNoContent ==
    /\ Running
    /\ Step(NoContent(heap), <<>>) /\ UNCHANGED <<e, extraArg>>

DoResponseLiteral(code) ==
    /\ Running
    /\ Step(ResponseLiteral(heap, code), <<>>) /\ UNCHANGED <<e, extraArg>>

DoJSON(value) ==
    /\ Running /\ res.alloc
    /\ Step(JSON(heap, res, value), Append(ops, Op("JSON", EmptyMap))) /\ UNCHANGED <<e, extraArg>>

DoText(str) ==
    /\ Running /\ res.alloc
    /\ Step(Text(heap, res, str), Append(ops, Op("Text", EmptyMap))) /\ UNCHANGED <<e, extraArg>>

\* r.Headers(map[string]string{...}) with a fresh map literal
DoHeadersLiteral(lit) ==
    /\ Running /\ res.alloc
    /\ LET h1 == Alloc(heap, lit, TRUE)
       IN  Step(Headers(h1, res, Len(h1)), Append(ops, Op("Headers", lit)))
    /\ UNCHANGED <<e, extraArg>>

\* r.Headers(m) with a nil map or a map the handler already holds
DoHeadersRef(m) ==
    /\ Running /\ res.alloc
    /\ IF m = 0 THEN TRUE ELSE heap[m].lit
    /\ Step(Headers(heap, res, m), Append(ops, Op("Headers", Deref(heap, m))))
    /\ UNCHANGED <<e, extraArg>>

DoReader ==
    /\ Running /\ res.alloc
    /\ Step(Reader(heap, res), Append(ops, Op("Reader", EmptyMap))) /\ UNCHANGED <<e, extraArg>>

DoReadCloser ==
    /\ Running /\ res.alloc
    /\ Step(ReadCloser(heap, res), Append(ops, Op("ReadCloser", EmptyMap))) /\ UNCHANGED <<e, extraArg>>

DoNewCode(code, status) ==
    /\ Running
    /\ e' = NewCode(code, status)
    /\ nops' = nops + 1
    /\ UNCHANGED <<pc, panicked, heap, res, ops, src, runs, w, wAtReturn, outcome,
                   resolved, classifierCalls, copyErrCalls, afterCalls, errOut,
                   extraArg, cfg>>

DoErrorJSONCodeJSON(extra) ==
    /\ Running /\ e.alloc
    /\ LET st == ErrorJSONCodeJSON(heap, e, extra)
       IN  /\ Step(st, <<Op("CodeJSON", EmptyMap)>>)
           /\ e' = st.e
           /\ extraArg' = extra

\* res.Error()
DoError(srcFail) ==
    /\ Running /\ res.alloc
    /\ LET x == Error(res, src, Len(runs) + 1, srcFail)
       IN  /\ src' = x.src
           /\ IF x.panic # ""
              THEN /\ pc' = "panic" /\ panicked' = x.panic
                   /\ UNCHANGED <<runs, errOut>>
              ELSE /\ runs' = Append(runs, [by |-> "Error", kind |-> res.Copy.kind,
                                            err |-> x.err])
                   /\ errOut' = Append(errOut, x.str)
                   /\ UNCHANGED <<pc, panicked>>
    /\ nops' = nops + 1
    /\ UNCHANGED <<heap, res, ops, e, w, wAtReturn, outcome, resolved,
                   classifierCalls, copyErrCalls, afterCalls, extraArg, cfg>>

\* w.Header().Set(key, value) by the handler itself
HandlerSetHeader(key, value) ==
    /\ Running
    /\ w' = [w EXCEPT !.header = HeaderSet(@, key, value)]
    /\ nops' = nops + 1
    /\ UNCHANGED <<pc, panicked, heap, res, ops, e, src, runs, wAtReturn, outcome,
                   resolved, classifierCalls, copyErrCalls, afterCalls, errOut,
                   extraArg, cfg>>

-----------------------------------------------------------------------------

Init ==
    /\ pc = "handler"
    /\ panicked = ""
    /\ nops = 0
    /\ heap = <<>>
    /\ res = NilResponse
    /\ ops = <<>>
    /\ e = NilCode
    /\ src = [eof |-> FALSE, closed |-> 0, events |-> <<>>]
    /\ runs = <<>>
    /\ w = [header |-> EmptyMap, calls |-> <<>>]
    /\ wAtReturn = EmptyMap
    /\ outcome = [type |-> "none", msg |-> ""]
    /\ resolved = NilResValue
    /\ classifierCalls = <<>>
    /\ copyErrCalls = <<>>
    /\ afterCalls = <<>>
    /\ errOut = <<>>
    /\ extraArg = <<>>
    /\ cfg \in {[classifier |-> c] : c \in {"default", "custom"}}

Next ==
    \/ \E code \in Statuses : DoCode(code)
    \/ DoNoContent
    \/ \E code \in Statuses : DoResponseLiteral(code)
    \/ \E value \in JSONValues : DoJSON(value)
    \/ \E str \in Texts : DoText(str)
    \/ \E lit \in InputMaps : DoHeadersLiteral(lit)
    \/ \E m \in 0..Len(heap) : DoHeadersRef(m)
    \/ DoReader
    \/ DoReadCloser
    \/ \E code \in {"NOT_FOUND"}, status \in {StatusNotFound} : DoNewCode(code, status)
    \/ \E extra \in ExtraArgs : DoErrorJSONCodeJSON(extra)
    \/ \E srcFail \in BOOLEAN : DoError(srcFail)
    \/ \E key \in {"A", "X-Own"}, value \in {"h"} : HandlerSetHeader(key, value)
    \/ H
    \/ HRouter

Spec == Init /\ [][Next]_vars

-----------------------------------------------------------------------------
(* Vocabulary of the properties *)

Resolved == pc = "done" /\ outcome.type \in {"Response", "error"}

\* positions of the calls of one kind the resolver made on the writer
CallsOf(op) == { i \in DOMAIN w.calls : w.calls[i].op = op }

\* invocations of a body action made by the resolver
ResolverRuns == { i \in DOMAIN runs : runs[i].by = "resolver" }

NumHeaders == Cardinality(DOMAIN resolved.headers)

\* positions in src.events of the events of one kind of invocation n
EventsOf(ev, n) ==
    { i \in DOMAIN src.events : src.events[i].ev = ev /\ src.events[i].run = n }

-----------------------------------------------------------------------------
(* C1: for every request whose handler returns a non-nil outcome, the      *)
(* after-hook DefaultAfterMiddleware is invoked exactly once, with the     *)
(* resolved Result, whether the body action succeeds, fails, or is absent. *)
C1_AfterHookExactlyOnce ==
    Resolved => afterCalls = <<resolved>>

(* C2: for a non-nil outcome the resolver's calls on the response writer   *)
(* are exactly: one Set per header of the resolved Result, then one        *)
(* WriteHeader, then at most one invocation of the body action; before the *)
(* handler returns the resolver has made no call at all.                   *)
C2_ResolverSequence ==
    /\ pc # "done" => w.calls = <<>> /\ ResolverRuns = {}
    /\ Resolved =>
         /\ Len(w.calls) \in {NumHeaders + 1, NumHeaders + 2}
         /\ \A i \in 1..NumHeaders :
               /\ w.calls[i].op = "Set"
               /\ w.calls[i].k \in DOMAIN resolved.headers
               /\ w.calls[i].v = resolved.headers[w.calls[i].k]
         /\ { w.calls[i].k : i \in 1..NumHeaders } = DOMAIN resolved.headers
         /\ w.calls[NumHeaders + 1] = Call("WriteHeader", "", "", resolved.Code)
         /\ Cardinality(CallsOf("WriteHeader")) = 1
         /\ Cardinality(CallsOf("Copy")) <= 1
         /\ Cardinality(ResolverRuns) = Cardinality(CallsOf("Copy"))
         /\ \A i \in CallsOf("Copy") :
               i = NumHeaders + 2 /\ w.calls[i].k = resolved.Copy.kind

C2_Witness ==
    /\ Resolved
    /\ NumHeaders >= 2
    /\ Len(w.calls) = NumHeaders + 2

(* C3: when the handler returns nil the resolver makes no call on the      *)
(* response writer, leaves its headers as the handler left them, and       *)
(* invokes none of the classifier, the copy-failure observer, the body     *)
(* action or the after-hook.                                               *)
C3_NilReturnDoesNothing ==
    (pc = "done" /\ outcome.type = "nil") =>
        /\ w.calls = <<>>
        /\ w.header = wAtReturn
        /\ classifierCalls = <<>>
        /\ copyErrCalls = <<>>
        /\ afterCalls = <<>>
        /\ ResolverRuns = {}
        /\ resolved = NilResValue

C3_Witness ==
    /\ pc = "done" /\ outcome.type = "nil"
    /\ res.alloc /\ res.Copy.kind # "nil"
    /\ DOMAIN wAtReturn # {}

(* C4: for every Result R a handler returns, the status written is R's     *)
(* status, every key of R's header set reads back from the response as R's *)
(* value for it, and headers the handler set under other names are left    *)
(* unchanged.                                                              *)
C4_ResponseCarriesResult ==
    (pc = "done" /\ outcome.type = "Response") =>
        /\ \A i \in CallsOf("WriteHeader") : w.calls[i].n = resolved.Code
        /\ CallsOf("WriteHeader") # {}
        /\ \A k \in DOMAIN resolved.headers :
               HeaderGet(w.header, k) = resolved.headers[k]
        /\ \A k \in DOMAIN wAtReturn :
               (\A j \in DOMAIN resolved.headers : CanonicalMIMEHeaderKey(j) # k)
                   => (k \in DOMAIN w.header /\ w.header[k] = wAtReturn[k])

(* C5: a non-nil outcome that is not a Result goes to the configured       *)
(* classifier exactly once and the resolver writes the status, headers and *)
(* body of the Result it returns (by default 400 with the error's message  *)
(* as text); an outcome that is a Result is used as it is and the          *)
(* classifier is not invoked.                                              *)
C5_ClassifierRouting ==
    /\ (pc = "done" /\ outcome.type = "error") =>
         /\ classifierCalls = <<outcome.msg>>
         /\ resolved.Code = (IF cfg.classifier = "default" THEN 400 ELSE 500)
         /\ resolved.headers = EmptyMap
         /\ resolved.Copy = [kind |-> "text", val |-> [text |-> outcome.msg]]
         /\ w.calls[1] = Call("WriteHeader", "", "", resolved.Code)
         /\ Len(w.calls) = 2
         /\ w.calls[2].op = "Copy" /\ w.calls[2].k = "text"
         /\ Len(runs) > 0
         /\ runs[Len(runs)].by = "resolver"
         /\ runs[Len(runs)].err = "" => w.calls[2].v = outcome.msg
    /\ (pc = "done" /\ outcome.type = "Response") =>
         /\ classifierCalls = <<>>
         /\ resolved = ResValue(heap, res)

C5_Witness ==
    /\ pc = "done" /\ outcome.type = "error"
    /\ cfg.classifier = "default"
    /\ res.alloc /\ res.Code = 200
    /\ w.calls[2].v = "boom"

(* C6: when the resolved Result's body action fails the failure is         *)
(* reported to CopyErrorHandler exactly once, the body action is not       *)
(* invoked again and the one status written stays the Result's; when the   *)
(* body action succeeds or is absent CopyErrorHandler is not invoked.      *)
C6_CopyFailureReported ==
    /\ pc # "done" => copyErrCalls = <<>>
    /\ Resolved =>
         /\ Cardinality(ResolverRuns) <= 1
         /\ \A i \in ResolverRuns :
               /\ resolved.Copy.kind # "nil"
               /\ IF runs[i].err # ""
                  THEN copyErrCalls = <<runs[i].err>>
                  ELSE copyErrCalls = <<>>
         /\ ResolverRuns = {} => (resolved.Copy.kind = "nil" /\ copyErrCalls = <<>>)
         /\ \A i \in CallsOf("WriteHeader") : w.calls[i].n = resolved.Code
         /\ Cardinality(CallsOf("WriteHeader")) = 1

C6_Witness ==
    /\ Resolved
    /\ \E i \in ResolverRuns : runs[i].err # "" /\ runs[i].kind = "json"
    /\ Len(copyErrCalls) = 1

(* C7: every invocation of the body action installed by ReadCloser copies  *)
(* from the source once and then closes it exactly once, whether the copy  *)
(* succeeded or failed; an invocation of the body action installed by      *)
(* Reader, or of a JSON or text body, never closes the source.             *)
C7_ReadCloserCloses ==
    \A n \in DOMAIN runs :
        IF runs[n].kind = "readcloser"
        THEN /\ Cardinality(EventsOf("copy", n)) = 1
             /\ Cardinality(EventsOf("close", n)) = 1
             /\ \A i \in EventsOf("copy", n), j \in EventsOf("close", n) : i < j
        ELSE EventsOf("close", n) = {}

C7_Witness ==
    /\ \E n \in DOMAIN runs : runs[n].kind = "readcloser" /\ runs[n].err # ""
    /\ \E n \in DOMAIN runs : runs[n].kind = "readcloser" /\ runs[n].err = ""
    /\ src.closed = 2

\* the state right after a call e.JSON(extraArg...)
AfterCodeJSON == pc = "handler" /\ ops = <<Op("CodeJSON", EmptyMap)>>

\* the step is a call e.JSON(...): it is the only one that leaves a new
\* Response whose log of calls is the single CodeJSON entry
CodeJSONStep ==
    nops' = nops + 1 /\ res' # res /\ ops' = <<Op("CodeJSON", EmptyMap)>>

\* what every call e.JSON(...) produces, whatever the payload
CodeJSONResult ==
    /\ res.Code = e.Status
    /\ Deref(heap, res.headers) = [k \in {"Content-Type"} |-> "application/json"]
    /\ res.Copy.kind = "json"
    /\ res.Copy.val["code"] = Quote(e.Code)
    /\ DOMAIN res.Copy.val \subseteq {"code", "extra"}

\* the call left the ErrorJSONCode as it was and built the Result on a fresh
\* header map
CodeJSONIndependent ==
    CodeJSONStep =>
        /\ e' = e
        /\ res'.headers = Len(heap') /\ Len(heap') = Len(heap) + 1
        /\ \A i \in 1..Len(heap) : heap'[i] = heap[i]

\* a payload that is supplied and is not empty
NonEmptyPayload ==
    Len(extraArg) > 0 /\ extraArg[1] \notin {NilAny, "\"\"", "null"}

(* C8 as stated: e.JSON(...) returns a Result with e's status, Content-Type *)
(* application/json and a body whose "code" is e's code, and the body has   *)
(* an "extra" field only when a non-empty payload is supplied; the key is   *)
(* absent for no arguments and for an empty or nil payload.                 *)
C8_ExtraOnlyWhenNonEmpty ==
    AfterCodeJSON =>
        /\ CodeJSONResult
        /\ ("extra" \in DOMAIN res.Copy.val) <=> NonEmptyPayload

(* C8 amended: e.JSON(...) returns a new Result with e's status,            *)
(* Content-Type application/json and a body whose "code" is e's code; the   *)
(* body has an "extra" field, holding the first argument, exactly when at   *)
(* least one argument is supplied and the first is not the nil interface    *)
(* (an empty string and a typed nil pointer are emitted as "" and null);    *)
(* the call does not modify e and builds the Result on a fresh header map.  *)
C8_ExtraWhenNonNil ==
    /\ [](AfterCodeJSON =>
            /\ CodeJSONResult
            /\ ("extra" \in DOMAIN res.Copy.val)
                  <=> (Len(extraArg) > 0 /\ extraArg[1] # NilAny)
            /\ ("extra" \in DOMAIN res.Copy.val)
                  => res.Copy.val["extra"] = extraArg[1]
            /\ extraArg = <<>> => Encode(res.Copy.val) = "{\"code\":\"NOT_FOUND\"}\n")
    /\ [][CodeJSONIndependent]_vars

C8_Witness ==
    /\ AfterCodeJSON
    /\ extraArg = <<"\"\"">>
    /\ Encode(res.Copy.val) = "{\"code\":\"NOT_FOUND\",\"extra\":\"\"}\n"
    /\ Len(heap) >= 2

\* the header set the builder calls made so far should have produced: each
\* Headers call overrides key by key, JSON sets Content-Type
RECURSIVE MergeAll(_)
MergeAll(log) ==
    IF log = <<>> THEN EmptyMap
    ELSE LET prev == MergeAll(SubSeq(log, 1, Len(log) - 1))
             last == log[Len(log)]
             add  == CASE last.op = "Headers" -> last.arg
                       [] last.op \in {"JSON", "CodeJSON"} ->
                              [k \in {"Content-Type"} |-> "application/json"]
                       [] OTHER -> EmptyMap
         IN  [k \in (DOMAIN prev) \cup (DOMAIN add) |->
                 IF k \in DOMAIN add THEN add[k] ELSE prev[k]]

\* the step is a call of Headers that returned
HeadersStep ==
    /\ Len(ops') = Len(ops) + 1
    /\ ops'[Len(ops')].op = "Headers"

(* C9: after any sequence of Headers calls on a Result its header set is    *)
(* the left-to-right merge of the maps passed: a key holds the value of the *)
(* last call that contained it and keys of earlier calls are kept; a        *)
(* Headers call changes neither the status nor the body action.             *)
C9_HeadersMerge ==
    /\ [](res.alloc => Deref(heap, res.headers) = MergeAll(ops))
    /\ [][HeadersStep => (res'.Code = res.Code /\ res'.Copy = res.Copy)]_vars

C9_Witness ==
    /\ res.alloc
    /\ ops = <<Op("Headers", [A |-> "1"]), Op("Headers", [A |-> "2", B |-> "3"])>>
    /\ Deref(heap, res.headers) = [A |-> "2", B |-> "3"]

(* C10: Error() on any Result the builder produces, one without a body      *)
(* action included, returns a string and never aborts.                      *)
C10_ErrorNeverAborts ==
    panicked # "Error"

====
